---- MODULE Spec2Model ----
(***************************************************************************)
(* Model of package pkgbuild: the in-memory PKGBUILD document (Data,        *)
(* Container, Pkgbuild), its edit operations (Append, Set, Insert, Remove)  *)
(* and its renderer (Container.Lines, Pkgbuild.Lines, Sort, Order).         *)
(*                                                                         *)
(* Go strings are TLA+ strings; Go slices are sequences, so Go index k is   *)
(* position k+1 here.  A *Container is its index in the arena cont.         *)
(***************************************************************************)
EXTENDS Integers, Sequences, FiniteSets, TLC

VARIABLES
    cont,   \* arena of Container values; a *Container is an index into it
    p,      \* the Pkgbuild map: key |-> sequence of *Container
    call,   \* the last call made: operation, arguments, boolean result
    out     \* lines returned by the last Lines call, each with its container

vars == <<cont, p, call, out>>

(* ------------------------------ bounds -------------------------------- *)

\* containers of a document that is edited (Spec)
MaxContainers == 3
\* Values of a container (SpecRender)
MaxValues == 3
\* containers of a document that is rendered, and their line numbers (SpecOrder)
MaxEntries == 2
MaxLine == 1

(* ---------------- names and tables kept outside src/ ------------------- *)

UNKNOWN == "<unknown>"
BLANK == "<blank>"
HEADER == "<header>"

L_VARIABLES ==
    {"pkgbase", "pkgname", "pkgver", "pkgrel", "epoch", "pkgdesc", "arch",
     "url", "license", "groups", "depends", "makedepends", "checkdepends",
     "optdepends", "provides", "conflicts", "replaces", "backup", "options",
     "install", "changelog", "source", "noextract", "md5sums", "sha1sums",
     "sha256sums"}

L_FUNCTIONS == {"prepare", "build", "check", "package"}

\* Rendering style of each known variable.
U_VARIABLES(name) ==
    CASE name \in {"pkgbase", "pkgver", "pkgrel", "epoch"} -> "TU_SINGLEVAR"
      [] name \in {"pkgdesc", "url", "install", "changelog"} -> "TU_SINGLEVARQ"
      [] name \in {"pkgname"} -> "TU_OPTIONAL"
      [] name \in {"options"} -> "TU_MULTIPLEVAR"
      [] name \in {"source", "md5sums", "sha1sums", "sha256sums"} -> "TU_MULTIPLELINES"
      [] OTHER -> "TU_MULTIPLEVARQ"

quotify(s) == "\"" \o s \o "\""

RECURSIVE joinFrom(_, _, _)
joinFrom(v, k, quote) ==
    IF k > Len(v) THEN ""
    ELSE (IF k > 1 THEN " " ELSE "")
         \o (IF quote THEN quotify(v[k].Value) ELSE v[k].Value)
         \o joinFrom(v, k + 1, quote)

\* joinData(values, split, quote): the values, each quoted when quote is
\* set, separated by one space.
joinData(v, split, quote) == joinFrom(v, 1, quote)

(* ----------------------------- constructors ---------------------------- *)

NewData(t, v, l) == [Type |-> t, Value |-> v, Line |-> l]

\* c.Append(t, i, v...)
ContainerAppend(c, t, i, v) ==
    [c EXCEPT !.Values = @ \o [k \in 1..Len(v) |-> NewData(t, v[k], i)]]

HasPrefix(s, pre) == Len(s) >= Len(pre) /\ SubSeq(s, 1, Len(pre)) = pre

\* NewContainer(l, i).  lt is what lineType(l) returned: t, e and the fields
\* d (d[k+1] is Go's d[k]); lt.split is splitString(d[2]) of a variable line.
NewContainer(lt, i) ==
    LET c0 == [Type |-> "", Name |-> "", Begin |-> i, End |-> 0, Values |-> <<>>]
        c ==
          CASE lt.t = "TD_VARIABLE" ->
                 ContainerAppend(
                   [c0 EXCEPT !.Name = lt.d[2],
                              !.Type = IF lt.d[2] \in L_VARIABLES
                                       THEN "TC_VARIABLE" ELSE "TC_UVARIABLE"],
                   lt.t, i, lt.split)
            [] lt.t = "TD_FUNC" ->
                 ContainerAppend(
                   [c0 EXCEPT !.Name = lt.d[1],
                              !.Type = IF HasPrefix(lt.d[2], "package_")
                                       THEN "TC_SFUNCTION"
                                       ELSE IF lt.d[1] \in L_FUNCTIONS
                                            THEN "TC_FUNCTION"
                                            ELSE "TC_UFUNCTION"],
                   lt.t, i, <<lt.d[2]>>)
            [] lt.t = "TD_UNKNOWN" ->
                 ContainerAppend([c0 EXCEPT !.Name = UNKNOWN, !.Type = "TC_UNKNOWN"],
                                 lt.t, i, <<lt.d[1]>>)
            [] OTHER ->
                 ContainerAppend([c0 EXCEPT !.Name = BLANK, !.Type = "TC_BLANKCOMMENT"],
                                 lt.t, i, <<lt.d[1]>>)
    IN  [c |-> c, e |-> lt.e]

NewPkgbuild == <<>>

(* ------------------------------ unparsing ------------------------------ *)

UnparseType(c) ==
    CASE c.Type = "TC_VARIABLE" -> U_VARIABLES(c.Name)
      [] c.Type = "TC_UVARIABLE" -> "TU_OPTIONALQ"
      [] OTHER -> "TU_LINES"

RECURSIVE Repeat(_, _)
Repeat(s, n) == IF n <= 0 THEN "" ELSE s \o Repeat(s, n - 1)

\* mutant: one Value is parenthesized too
LinesOptionalNoCollapse(c) ==
    IF Len(c.Values) >= 1
    THEN <<c.Name \o "=(" \o joinData(c.Values, TRUE, TRUE) \o ")">>
    ELSE <<c.Name \o "=" \o joinData(c.Values, FALSE, FALSE)>>

\* case TU_OPTIONAL
LinesOptional(c) ==
    IF Len(c.Values) > 1
    THEN <<c.Name \o "=(" \o joinData(c.Values, TRUE, TRUE) \o ")">>
    ELSE <<c.Name \o "=" \o joinData(c.Values, FALSE, FALSE)>>

\* case TU_OPTIONALQ
LinesOptionalQ(c) ==
    LET s == joinData(c.Values, TRUE, TRUE)
    IN  IF Len(c.Values) > 1
        THEN <<c.Name \o "=(" \o s \o ")">>
        ELSE <<c.Name \o "=" \o s>>

\* the loop of case TU_MULTIPLELINES: o is out, s the pending line, t the
\* indentation, rest the values still to place
RECURSIVE MultipleLinesLoop(_, _, _, _)
MultipleLinesLoop(o, s, t, rest) ==
    IF rest = <<>> THEN Append(o, s \o ")")
    ELSE MultipleLinesLoop(Append(o, s), t \o quotify(Head(rest).Value), t, Tail(rest))

\* mutant: the indentation counts the name alone, not the "=(" after it
MultipleLinesIndentShort(s) == Repeat(" ", Len(s) - 2)

\* t := strings.Repeat(" ", utf8.RuneCountInString(s))
MultipleLinesIndent(s) == Repeat(" ", Len(s))

\* case TU_MULTIPLELINES
LinesMultipleLines(c) ==
    IF Len(c.Values) > 0
    THEN LET s == c.Name \o "=("
             t == MultipleLinesIndent(s)
         IN  MultipleLinesLoop(<<>>, s \o quotify(c.Values[1].Value), t, Tail(c.Values))
    ELSE <<c.Name \o "=()">>

\* default case: o is out, blank the flag, rest the values still to place
RECURSIVE LinesVerbatim(_, _, _)
LinesVerbatim(o, blank, rest) ==
    IF rest = <<>> THEN o
    ELSE LET l == Head(rest).Value
         IN  LinesVerbatim(IF l # "" \/ ~blank THEN Append(o, l) ELSE o,
                           l = "", Tail(rest))

\* c.Lines()
ContainerLines(c) ==
    LET u == UnparseType(c)
    IN  CASE u = "TU_SINGLEVAR" ->
               <<c.Name \o "=" \o joinData(c.Values, FALSE, FALSE)>>
          [] u = "TU_SINGLEVARQ" ->
               <<c.Name \o "=" \o quotify(joinData(c.Values, FALSE, FALSE))>>
          [] u = "TU_OPTIONAL" -> LinesOptional(c)
          [] u = "TU_OPTIONALQ" -> LinesOptionalQ(c)
          [] u = "TU_MULTIPLEVAR" ->
               <<c.Name \o "=(" \o joinData(c.Values, TRUE, FALSE) \o ")">>
          [] u = "TU_MULTIPLEVARQ" ->
               <<c.Name \o "=(" \o joinData(c.Values, TRUE, TRUE) \o ")">>
          [] u = "TU_MULTIPLELINES" -> LinesMultipleLines(c)
          [] OTHER -> LinesVerbatim(<<>>, FALSE, c.Values)

\* c.Empty()
ContainerEmpty(c) == Len(c.Values) = 0

(* ----------------------------- modification --------------------------- *)

RemoveAt(s, k) == SubSeq(s, 1, k) \o SubSeq(s, k + 2, Len(s))

\* mutant: a value receiver, so that the shortened slice is lost
ContainerSetByValue(c, idx, v) ==
    IF idx < 0 \/ idx >= Len(c.Values) THEN [c |-> c, ok |-> FALSE]
    ELSE IF v = ""
         THEN [c |-> c, ok |-> TRUE]
         ELSE [c |-> [c EXCEPT !.Values[idx + 1].Value = v], ok |-> TRUE]

\* mutant: the empty text is stored instead of the Value being deleted
ContainerSetStoreEmpty(c, idx, v) ==
    IF idx < 0 \/ idx >= Len(c.Values) THEN [c |-> c, ok |-> FALSE]
    ELSE [c |-> [c EXCEPT !.Values[idx + 1].Value = v], ok |-> TRUE]

\* c.Set(idx, v): the container afterwards and the result
ContainerSet(c, idx, v) ==
    IF idx < 0 \/ idx >= Len(c.Values) THEN [c |-> c, ok |-> FALSE]
    ELSE IF v = ""
         THEN [c |-> [c EXCEPT !.Values = RemoveAt(@, idx)], ok |-> TRUE]
         ELSE [c |-> [c EXCEPT !.Values[idx + 1].Value = v], ok |-> TRUE]

\* mutant: the list of the key is replaced, not appended to
InsertOneOverwrite(pp, cs, id) ==
    [x \in DOMAIN pp \cup {cs[id].Name} |->
       IF x = cs[id].Name THEN <<id>> ELSE pp[x]]

\* one iteration of p.Insert: container id of the arena cs goes under its name
InsertOne(pp, cs, id) ==
    LET k == cs[id].Name
    IN  IF k \in DOMAIN pp
        THEN [pp EXCEPT ![k] = Append(@, id)]
        ELSE [x \in DOMAIN pp \cup {k} |-> IF x = k THEN <<id>> ELSE pp[x]]

\* p.Insert(cont...)
RECURSIVE PkgbuildInsert(_, _, _)
PkgbuildInsert(pp, cs, ids) ==
    IF ids = <<>> THEN pp
    ELSE PkgbuildInsert(InsertOne(pp, cs, Head(ids)), cs, Tail(ids))

\* mutant: the entries after index i are dropped with it
PkgbuildRemoveTail(pp, k, i) ==
    IF k \in DOMAIN pp /\ i >= 0 /\ i < Len(pp[k])
    THEN [p |-> [pp EXCEPT ![k] = SubSeq(@, 1, i)], ok |-> TRUE]
    ELSE [p |-> pp, ok |-> FALSE]

\* p.Remove(k, i): the map afterwards and the result
PkgbuildRemove(pp, k, i) ==
    IF k \in DOMAIN pp /\ i >= 0 /\ i < Len(pp[k])
    THEN [p |-> [pp EXCEPT ![k] = RemoveAt(@, i)], ok |-> TRUE]
    ELSE [p |-> pp, ok |-> FALSE]

(* -------------------------- sorting containers ------------------------- *)

\* LContainer.Less(i, j) for Go indices i, j
Less(cs, l, i, j) == cs[l[i + 1]].Begin <= cs[l[j + 1]].Begin

Swap(l, i, j) == [l EXCEPT ![i + 1] = l[j + 1], ![j + 1] = l[i + 1]]

\* sort.Sort on at most 12 elements is an insertion sort:
\*   for i := 1; i < n; i++ { for j := i; j > 0 && Less(j, j-1); j-- { Swap(j, j-1) } }
RECURSIVE SinkLeft(_, _, _)
SinkLeft(cs, l, j) ==
    IF j > 0 /\ Less(cs, l, j, j - 1)
    THEN SinkLeft(cs, Swap(l, j, j - 1), j - 1)
    ELSE l

RECURSIVE InsertionSort(_, _, _)
InsertionSort(cs, l, i) ==
    IF i >= Len(l) THEN l ELSE InsertionSort(cs, SinkLeft(cs, l, i), i + 1)

LContainerSort(cs, l) == InsertionSort(cs, l, 1)

\* the containers of the map, key after key in the iteration order ko
RECURSIVE Collect(_, _)
Collect(pp, ko) ==
    IF ko = <<>> THEN <<>> ELSE pp[Head(ko)] \o Collect(pp, Tail(ko))

\* p.Sort(), the range over the map visiting the keys in the order ko
PkgbuildSort(pp, cs, ko) == LContainerSort(cs, Collect(pp, ko))

\* p.Order(): each container of cs[1:] mapped to the one before it
PkgbuildOrder(pp, cs, ko) ==
    LET l == PkgbuildSort(pp, cs, ko)
        last(c) == CHOOSE i \in 2..Len(l) :
                     l[i] = c /\ \A j \in 2..Len(l) : l[j] = c => j <= i
    IN  [c \in {l[i] : i \in 2..Len(l)} |-> l[last(c) - 1]]

\* every order in which a range over the map may visit its keys
RECURSIVE Perms(_)
Perms(S) ==
    IF S = {} THEN {<<>>}
    ELSE UNION {{<<x>> \o t : t \in Perms(S \ {x})} : x \in S}

(* --------------------- Pkgbuild.Lines and its helpers ------------------ *)

\* position of a container in the order the index o describes
RECURSIVE Rank(_, _)
Rank(o, c) == IF c \in DOMAIN o THEN 1 + Rank(o, o[c]) ELSE 0

\* the containers of S, first to last in the order the index o describes
RECURSIVE ByOrder(_, _)
ByOrder(o, S) ==
    IF S = {} THEN <<>>
    ELSE LET c == CHOOSE x \in S : \A y \in S : Rank(o, x) <= Rank(o, y)
         IN  <<c>> \o ByOrder(o, S \ {c})

\* the lines of container id, each tagged with the container
TaggedLines(cs, id) ==
    LET l == ContainerLines(cs[id]) IN [k \in 1..Len(l) |-> [c |-> id, l |-> l[k]]]

RECURSIVE EmitAll(_, _)
EmitAll(cs, ids) ==
    IF ids = <<>> THEN <<>> ELSE TaggedLines(cs, Head(ids)) \o EmitAll(cs, Tail(ids))

Range(s) == {s[i] : i \in DOMAIN s}

\* getLinesByKey(pc, o, k, &lines): what it appends to lines
getLinesByKey(pc, cs, o, k) ==
    IF k \in DOMAIN pc THEN EmitAll(cs, ByOrder(o, Range(pc[k]))) ELSE <<>>

\* getLinesByType(pc, o, t, &lines): what it appends to lines
getLinesByType(pc, cs, o, t) ==
    EmitAll(cs, ByOrder(o, {c \in UNION {Range(pc[k]) : k \in DOMAIN pc} : cs[c].Type = t}))

\* the steps of Pkgbuild.Lines after the clone, in the order of the code
LinesSteps ==
    <<[by |-> "key", arg |-> HEADER], [by |-> "key", arg |-> "pkgbase"],
      [by |-> "key", arg |-> "pkgname"], [by |-> "key", arg |-> "pkgver"],
      [by |-> "key", arg |-> "pkgrel"], [by |-> "key", arg |-> "epoch"],
      [by |-> "key", arg |-> "pkgdesc"], [by |-> "key", arg |-> "arch"],
      [by |-> "key", arg |-> "url"], [by |-> "key", arg |-> "license"],
      [by |-> "key", arg |-> "groups"], [by |-> "key", arg |-> "depends"],
      [by |-> "key", arg |-> "makedepends"], [by |-> "key", arg |-> "checkdepends"],
      [by |-> "key", arg |-> "optdepends"], [by |-> "key", arg |-> "provides"],
      [by |-> "key", arg |-> "conflicts"], [by |-> "key", arg |-> "replaces"],
      [by |-> "key", arg |-> "backup"], [by |-> "key", arg |-> "options"],
      [by |-> "key", arg |-> "install"], [by |-> "key", arg |-> "changelog"],
      [by |-> "key", arg |-> "source"], [by |-> "key", arg |-> "noextract"],
      [by |-> "key", arg |-> "md5sums"], [by |-> "key", arg |-> "sha1sums"],
      [by |-> "key", arg |-> "sha256sums"],
      [by |-> "type", arg |-> "TC_UVARIABLE"],
      [by |-> "key", arg |-> "prepare"], [by |-> "key", arg |-> "build"],
      [by |-> "key", arg |-> "check"], [by |-> "key", arg |-> "package"],
      [by |-> "type", arg |-> "TC_SFUNCTION"],
      [by |-> "type", arg |-> "TC_UFUNCTION"],
      [by |-> "type", arg |-> "TC_UNKNOWN"]>>

RECURSIVE RunSteps(_, _, _, _)
RunSteps(pc, cs, o, steps) ==
    IF steps = <<>> THEN <<>>
    ELSE (IF Head(steps).by = "key"
          THEN getLinesByKey(pc, cs, o, Head(steps).arg)
          ELSE getLinesByType(pc, cs, o, Head(steps).arg))
         \o RunSteps(pc, cs, o, Tail(steps))

\* the clone pc of p.Lines: every list of p inserted into a new map
RECURSIVE Clone(_, _, _)
Clone(pp, cs, ko) ==
    IF ko = <<>> THEN NewPkgbuild
    ELSE PkgbuildInsert(Clone(pp, cs, SubSeq(ko, 1, Len(ko) - 1)), cs, pp[ko[Len(ko)]])

\* mutant: the entries are rendered in the order of their Begin
PkgbuildLinesByBegin(pp, cs, ko, ko2) ==
    EmitAll(cs, PkgbuildSort(Clone(pp, cs, ko), cs, ko2))

\* p.Lines(), the two ranges over a map visiting the keys in the orders ko
\* and ko2; every line is tagged with the container it renders
PkgbuildLines(pp, cs, ko, ko2) ==
    LET pc == Clone(pp, cs, ko)
        o == PkgbuildOrder(pc, cs, ko2)
    IN  RunSteps(pc, cs, o, LinesSteps)

(* ------------------------------- inputs -------------------------------- *)

Tokens(n) == SubSeq(<<"a", "b", "c", "d", "e">>, 1, n)

Plain(v) == [k \in 1..Len(v) |-> [Value |-> v[k]]]

\* what lineType returns for the line name=token or name=(token ...)
VarLine(name, n, paren) ==
    LET raw == IF paren THEN "(" \o joinData(Plain(Tokens(n)), TRUE, FALSE) \o ")"
               ELSE Tokens(n)[1]
    IN  [t |-> "TD_VARIABLE", e |-> 0, d |-> <<name \o "=" \o raw, name, raw>>,
         split |-> Tokens(n)]

\* what lineType returns for the line name() {
FuncLine(name) ==
    [t |-> "TD_FUNC", e |-> 0, d |-> <<name, name \o "() {">>, split |-> <<>>]

UnknownLine(l) == [t |-> "TD_UNKNOWN", e |-> 0, d |-> <<l>>, split |-> <<>>]

BlankLine(l) == [t |-> "TD_BLANK", e |-> 0, d |-> <<l>>, split |-> <<>>]

\* lines of every category and, for variables, of every rendering style
RenderInputs ==
    {VarLine("pkgver", 1, FALSE), VarLine("pkgdesc", 1, FALSE)}
    \cup {VarLine(name, n, TRUE) :
            name \in {"pkgname", "options", "arch", "sha256sums", "foo"},
            n \in 1..MaxValues}
    \cup {FuncLine("build"), FuncLine("package_x"), FuncLine("myfunc"),
          UnknownLine("make x"), BlankLine(""), BlankLine("# c")}

\* lines of known keys, of an unknown variable and of a comment
OrderInputs ==
    {VarLine("pkgname", 1, FALSE), VarLine("pkgver", 1, FALSE),
     VarLine("pkgrel", 1, FALSE), VarLine("arch", 1, TRUE),
     VarLine("source", 1, TRUE), VarLine("sha256sums", 1, TRUE),
     VarLine("foo", 1, FALSE), BlankLine("# c")}

\* lines of a variable and of a comment
DocInputs == {VarLine("pkgver", 1, FALSE), BlankLine("# c")}

SetTexts == {"", "x"}

AppendTexts == {"", "y"}

(* ------------------------------- actions ------------------------------- *)

NoCall == [op |-> "none", key |-> "", id |-> 0, idx |-> 0, v |-> "", ret |-> FALSE]

\* the containers the document holds
InDoc == UNION {Range(p[k]) : k \in DOMAIN p}

Init ==
    /\ cont = <<>>
    /\ p = NewPkgbuild
    /\ call = NoCall
    /\ out = <<>>

\* a document holding one container built from one line
InitRender ==
    \E lt \in RenderInputs :
        /\ cont = <<NewContainer(lt, 0).c>>
        /\ p = PkgbuildInsert(NewPkgbuild, cont, <<1>>)
        /\ call = NoCall
        /\ out = <<>>

\* p.Insert of the n containers built from the lines lts read at lines is
InsertNew(lts, is) ==
    LET n == Len(lts)
        cs == cont \o [j \in 1..n |-> NewContainer(lts[j], is[j]).c]
    IN  /\ cont' = cs
        /\ p' = PkgbuildInsert(p, cs, [j \in 1..n |-> Len(cont) + j])
        /\ call' = [NoCall EXCEPT !.op = "Insert", !.id = Len(cont) + 1, !.idx = n]
        /\ out' = <<>>

\* p.Insert(NewContainer(l, i), ...) for one or two consecutive lines of a file
InsertAct ==
    \E n \in 1..2 :
        /\ Len(cont) + n <= MaxContainers
        /\ \E lts \in [1..n -> DocInputs] :
               InsertNew(lts, [j \in 1..n |-> Len(cont) + j - 1])

\* p.Insert(NewContainer(l, i)) for a line of any line number
InsertAtAct ==
    /\ Len(cont) < MaxEntries
    /\ \E lt \in OrderInputs, i \in 0..MaxLine : InsertNew(<<lt>>, <<i>>)

\* p.Remove(k, i)
RemoveAct ==
    \E k \in DOMAIN p \cup {"epoch"} :
        \E i \in -1..(IF k \in DOMAIN p THEN Len(p[k]) ELSE 0) :
            LET r == PkgbuildRemove(p, k, i)
            IN  /\ p' = r.p
                /\ call' = [NoCall EXCEPT !.op = "Remove", !.key = k, !.idx = i,
                                          !.ret = r.ok]
                /\ out' = <<>>
                /\ UNCHANGED cont

\* c.Set(idx, v) on a container of the document
SetAct ==
    \E id \in InDoc :
        \E idx \in -1..Len(cont[id].Values), v \in SetTexts :
            LET r == ContainerSet(cont[id], idx, v)
            IN  /\ cont' = [cont EXCEPT ![id] = r.c]
                /\ call' = [NoCall EXCEPT !.op = "Set", !.id = id, !.idx = idx,
                                          !.v = v, !.ret = r.ok]
                /\ out' = <<>>
                /\ UNCHANGED p

\* c.Append(t, -1, v) on a container of the document
AppendAct ==
    \E id \in InDoc :
        /\ Len(cont[id].Values) < MaxValues
        /\ \E v \in AppendTexts :
               /\ cont' = [cont EXCEPT
                             ![id] = ContainerAppend(@, "TD_UNKNOWN", -1, <<v>>)]
               /\ call' = [NoCall EXCEPT !.op = "Append", !.id = id, !.v = v]
               /\ out' = <<>>
               /\ UNCHANGED p

\* c.Lines() on a container of the document
ContainerLinesAct ==
    \E id \in InDoc :
        /\ out' = TaggedLines(cont, id)
        /\ call' = [NoCall EXCEPT !.op = "ContainerLines", !.id = id]
        /\ UNCHANGED <<cont, p>>

\* some order of the keys of a map
RECURSIVE SomeOrder(_)
SomeOrder(S) ==
    IF S = {} THEN <<>>
    ELSE LET x == CHOOSE x \in S : TRUE IN <<x>> \o SomeOrder(S \ {x})

\* p.Lines().  The clone is a map, which keeps no trace of the order its keys
\* were visited in; the order of the range in Sort is any order of the keys.
LinesAct ==
    \E ko2 \in Perms({k \in DOMAIN p : p[k] # <<>>}) :
        /\ out' = PkgbuildLines(p, cont, SomeOrder(DOMAIN p), ko2)
        /\ call' = [NoCall EXCEPT !.op = "Lines"]
        /\ UNCHANGED <<cont, p>>

Next == InsertAct \/ RemoveAct \/ SetAct \/ LinesAct

NextOrder == InsertAtAct \/ LinesAct

NextRender == AppendAct \/ SetAct \/ ContainerLinesAct

\* a document built from a file read line by line, then edited and rendered
Spec == Init /\ [][Next]_vars

\* a document whose containers carry any line numbers, rendered
SpecOrder == Init /\ [][NextOrder]_vars

\* one container of any category and style, edited and rendered
SpecRender == InitRender /\ [][NextRender]_vars

\* two containers of one value each, of any two categories, edited and rendered
OneValueInputs ==
    {VarLine("pkgver", 1, FALSE), VarLine("pkgdesc", 1, FALSE)}
    \cup {VarLine(name, 1, TRUE) :
            name \in {"pkgname", "options", "arch", "sha256sums", "foo"}}
    \cup {FuncLine("build"), FuncLine("package_x"), FuncLine("myfunc"),
          UnknownLine("make x"), BlankLine(""), BlankLine("# c")}

InitPair ==
    \E lt1 \in OneValueInputs, lt2 \in OneValueInputs :
        /\ cont = <<NewContainer(lt1, 0).c, NewContainer(lt2, 1).c>>
        /\ p = PkgbuildInsert(NewPkgbuild, cont, <<1, 2>>)
        /\ call = NoCall
        /\ out = <<>>

NextPair == SetAct \/ ContainerLinesAct

SpecPair == InitPair /\ [][NextPair]_vars

(* ------------------------------- claims -------------------------------- *)

ListStyles ==
    {"TU_OPTIONAL", "TU_OPTIONALQ", "TU_MULTIPLEVAR", "TU_MULTIPLEVARQ",
     "TU_MULTIPLELINES"}

IsVariable(c) == c.Type \in {"TC_VARIABLE", "TC_UVARIABLE"}

\* the canonical order of the variable keys
CanonicalKeys ==
    <<"pkgbase", "pkgname", "pkgver", "pkgrel", "epoch", "pkgdesc", "arch",
      "url", "license", "groups", "depends", "makedepends", "checkdepends",
      "optdepends", "provides", "conflicts", "replaces", "backup", "options",
      "install", "changelog", "source", "noextract", "md5sums", "sha1sums",
      "sha256sums">>

KeyPos(k) == CHOOSE i \in DOMAIN CanonicalKeys : CanonicalKeys[i] = k

\* C1: in the lines Pkgbuild.Lines returns, every line of an entry named by
\* a canonical key comes before every line of an entry named by a later
\* canonical key, whatever the entries' Begin and order of insertion.
C1_CanonicalKeyOrder ==
    call.op = "Lines" =>
        \A i, j \in DOMAIN out :
            LET a == cont[out[i].c]
                b == cont[out[j].c]
            IN  (/\ a.Name \in Range(CanonicalKeys)
                 /\ b.Name \in Range(CanonicalKeys)
                 /\ KeyPos(a.Name) < KeyPos(b.Name)) => i < j

\* pkgrel was inserted first and begins first, and pkgver is rendered first
C1_Witness ==
    /\ call.op = "Lines"
    /\ \E i, j \in DOMAIN out :
           /\ i < j
           /\ cont[out[i].c].Name = "pkgver"
           /\ cont[out[j].c].Name = "pkgrel"
           /\ cont[out[j].c].Begin < cont[out[i].c].Begin
           /\ out[j].c < out[i].c

\* what Container.Set(idx, "") leaves of the document when it deletes the
\* only Value of container id: the entry stays under its name and nothing
\* else changes
DeleteFrame(id) ==
    /\ p' = p
    /\ cont'[id].Name \in DOMAIN p'
    /\ id \in Range(p'[cont'[id].Name])
    /\ Len(cont') = Len(cont)
    /\ \A o \in DOMAIN cont \ {id} :
           /\ cont'[o] = cont[o]
           /\ ContainerLines(cont'[o]) = ContainerLines(cont[o])

DeletesOnlyValue ==
    /\ call'.op = "Set"
    /\ call'.ret
    /\ call'.v = ""
    /\ Len(cont[call'.id].Values) = 1

\* C2 as stated: after Set(idx, "") deletes the only Value of an entry of
\* any category and style, Lines of that entry returns no line, the entry is
\* still in the document under its name and no other entry has changed.
C2_Original ==
    [][DeletesOnlyValue =>
         /\ ContainerEmpty(cont'[call'.id])
         /\ ContainerLines(cont'[call'.id]) = <<>>
         /\ DeleteFrame(call'.id)]_vars

\* C2 as amended: after Set(idx, "") deletes the only Value of an entry,
\* Lines of that entry returns no line when the entry is rendered verbatim
\* (function, unknown and blank/comment categories) and exactly one line
\* when it is a variable; the entry is still in the document under its name
\* and no other entry has changed.
C2_DeleteOnlyValue ==
    [][DeletesOnlyValue =>
         /\ ContainerEmpty(cont'[call'.id])
         /\ (~IsVariable(cont'[call'.id]) => ContainerLines(cont'[call'.id]) = <<>>)
         /\ (IsVariable(cont'[call'.id]) => Len(ContainerLines(cont'[call'.id])) = 1)
         /\ DeleteFrame(call'.id)]_vars

\* the only Value of a verbatim entry was deleted beside a sibling that
\* still renders
C2_Witness ==
    /\ call.op = "Set" /\ call.ret /\ call.v = ""
    /\ ContainerEmpty(cont[call.id])
    /\ ~IsVariable(cont[call.id])
    /\ ContainerLines(cont[call.id]) = <<>>
    /\ \E o \in InDoc \ {call.id} : ContainerLines(cont[o]) # <<>>

LastChar(s) == SubSeq(s, Len(s), Len(s))

\* C4: a list-style variable with one Value renders as the one line
\* name=value (value quoted under TU_OPTIONALQ) under the collapsing styles
\* and as name=(value) under the others; with two or more Values every list
\* style opens with name=( and closes with ).
C4_ScalarCollapse ==
    \A id \in DOMAIN cont :
        LET c == cont[id]
            u == UnparseType(c)
            n == Len(c.Values)
            L == ContainerLines(c)
            v == c.Values[1].Value
        IN  (IsVariable(c) /\ u \in ListStyles) =>
              /\ (n = 1 /\ u = "TU_OPTIONAL") => L = <<c.Name \o "=" \o v>>
              /\ (n = 1 /\ u = "TU_OPTIONALQ") => L = <<c.Name \o "=" \o quotify(v)>>
              /\ (n = 1 /\ u = "TU_MULTIPLEVAR") => L = <<c.Name \o "=(" \o v \o ")">>
              /\ (n = 1 /\ u \in {"TU_MULTIPLEVARQ", "TU_MULTIPLELINES"}) =>
                     L = <<c.Name \o "=(" \o quotify(v) \o ")">>
              /\ n >= 2 => /\ Len(L) >= 1
                           /\ HasPrefix(L[1], c.Name \o "=(")
                           /\ LastChar(L[Len(L)]) = ")"

\* Lines was called on a one-valued entry of a collapsing style
C4_Witness ==
    /\ call.op = "ContainerLines"
    /\ cont[call.id].Type = "TC_VARIABLE"
    /\ UnparseType(cont[call.id]) = "TU_OPTIONAL"
    /\ Len(cont[call.id].Values) = 1
    /\ out = <<[c |-> call.id, l |-> "pkgname=a"]>>

\* C5: a recognized list-style variable without Values renders as the one
\* line name=(), under every list style.
C5_EmptyListParens ==
    \A id \in DOMAIN cont :
        LET c == cont[id]
        IN  (/\ c.Type = "TC_VARIABLE"
             /\ UnparseType(c) \in ListStyles
             /\ c.Values = <<>>) => ContainerLines(c) = <<c.Name \o "=()">>

AllSpaces(s) == \A i \in 1..Len(s) : SubSeq(s, i, i) = " "

\* C6: an entry of style TU_MULTIPLELINES with n >= 1 Values renders as n
\* lines, the k-th holding the k-th Value quoted; the first begins with
\* name=(, every later one with as many spaces as name=( has characters,
\* and the last one alone ends with the closing parenthesis.
C6_OneValuePerLine ==
    \A id \in DOMAIN cont :
        LET c == cont[id]
            n == Len(c.Values)
            L == ContainerLines(c)
            w == Len(c.Name \o "=(")
        IN  (UnparseType(c) = "TU_MULTIPLELINES" /\ n >= 1) =>
              /\ Len(L) = n
              /\ \A k \in 1..n :
                     LET pre == SubSeq(L[k], 1, w)
                         rest == SubSeq(L[k], w + 1, Len(L[k]))
                     IN  /\ Len(L[k]) >= w
                         /\ k = 1 => pre = c.Name \o "=("
                         /\ k > 1 => AllSpaces(pre)
                         /\ rest = quotify(c.Values[k].Value)
                                     \o (IF k = n THEN ")" ELSE "")

\* Lines was called on sha256sums holding three Values
C6_Witness ==
    /\ call.op = "ContainerLines"
    /\ cont[call.id].Name = "sha256sums"
    /\ Len(cont[call.id].Values) = 3
    /\ Len(out) = 3

\* C7: Remove(k, i) with k absent or i outside 0..len(p[k])-1 returns false
\* and leaves the document as it was; otherwise it returns true, the entry
\* at index i of p[k] is gone, the others of p[k] keep their order, and the
\* lists of the other keys are as they were.
C7_Remove ==
    [][call'.op = "Remove" =>
         LET k == call'.key
             i == call'.idx
         IN  IF k \notin DOMAIN p \/ i < 0 \/ i > Len(p[k]) - 1
             THEN ~call'.ret /\ p' = p /\ cont' = cont
             ELSE /\ call'.ret
                  /\ DOMAIN p' = DOMAIN p
                  /\ Len(p'[k]) = Len(p[k]) - 1
                  /\ \A j \in 1..i : p'[k][j] = p[k][j]
                  /\ \A j \in (i + 1)..Len(p'[k]) : p'[k][j] = p[k][j + 1]
                  /\ \A x \in DOMAIN p \ {k} : p'[x] = p[x]
                  /\ cont' = cont]_vars

\* the middle one of three entries of a key was removed
C7_Witness ==
    /\ call.op = "Remove" /\ call.ret /\ call.idx = 1
    /\ Len(p[call.key]) = 2
    /\ Len(cont) = 3

EmptyTexts(vs) == Cardinality({j \in DOMAIN vs : vs[j].Value = ""})

\* C8: Set(idx, v) with idx out of range returns false and leaves the Values
\* as they were; with idx in range and v not empty it returns true and only
\* the text of the Value at idx changes, to v; with idx in range and v empty
\* it returns true and the Value at idx is deleted, the others keeping order
\* and text.  No Set adds a Value of empty text.
C8_Set ==
    [][call'.op = "Set" =>
         LET old == cont[call'.id].Values
             new == cont'[call'.id].Values
             idx == call'.idx
             v == call'.v
         IN  /\ IF idx < 0 \/ idx >= Len(old)
                THEN ~call'.ret /\ new = old
                ELSE IF v # ""
                     THEN /\ call'.ret
                          /\ Len(new) = Len(old)
                          /\ new[idx + 1].Value = v
                          /\ new[idx + 1].Line = old[idx + 1].Line
                          /\ \A j \in DOMAIN old \ {idx + 1} : new[j] = old[j]
                     ELSE /\ call'.ret
                          /\ Len(new) = Len(old) - 1
                          /\ \A j \in 1..idx : new[j] = old[j]
                          /\ \A j \in (idx + 1)..Len(new) : new[j] = old[j + 1]
             /\ EmptyTexts(new) <= EmptyTexts(old)]_vars

\* the middle one of three Values was deleted
C8_Witness ==
    /\ call.op = "Set" /\ call.ret /\ call.v = "" /\ call.idx = 1
    /\ Len(cont[call.id].Values) = 2

\* every entry of the document is under the key that is its Name and under
\* that key once, and the entries of a key are in the order of insertion
KeyInvariant ==
    /\ \A k \in DOMAIN p : \A j \in DOMAIN p[k] : cont[p[k][j]].Name = k
    /\ \A k1, k2 \in DOMAIN p : \A j1 \in DOMAIN p[k1], j2 \in DOMAIN p[k2] :
           p[k1][j1] = p[k2][j2] => (k1 = k2 /\ j1 = j2)
    /\ \A k \in DOMAIN p : \A j1, j2 \in DOMAIN p[k] :
           j1 < j2 => p[k][j1] < p[k][j2]

\* C10: Insert leaves every list of the document as a prefix of the list
\* the key has afterwards and puts each new entry after it under the key
\* that is the entry's Name; after every Insert, Remove, Set and Lines each
\* entry of the document is under the key equal to its Name and no other,
\* earlier insertions first.
C10_InsertAppends ==
    [][/\ KeyInvariant'
       /\ call'.op = "Insert" =>
            /\ \A k \in DOMAIN p :
                   /\ k \in DOMAIN p'
                   /\ SubSeq(p'[k], 1, Len(p[k])) = p[k]
            /\ \A id \in (Len(cont) + 1)..Len(cont') :
                   LET k == cont'[id].Name
                   IN  /\ k \in DOMAIN p'
                       /\ \E j \in DOMAIN p'[k] :
                              /\ p'[k][j] = id
                              /\ k \in DOMAIN p => j > Len(p[k])
            /\ \A k \in DOMAIN p' :
                   Len(p'[k]) = (IF k \in DOMAIN p THEN Len(p[k]) ELSE 0)
                     + Cardinality({id \in (Len(cont) + 1)..Len(cont') :
                                      cont'[id].Name = k})]_vars

\* an entry was appended to a list that already held one
C10_Witness ==
    /\ call.op = "Insert"
    /\ \E k \in DOMAIN p :
           /\ Len(p[k]) >= 2
           /\ p[k][1] < call.id
           /\ p[k][Len(p[k])] >= call.id

====
